---- MODULE Spec2Model ----
(***************************************************************************)
(* A model of tox_conda/plugin.py, the conda environment runner of tox,   *)
(* and of tox_conda/FilteredInfo.py.                                       *)
(*                                                                         *)
(* Text.  A Python str is a sequence of symbols.  A symbol is either one   *)
(* of the two characters shlex treats specially that the model carries,    *)
(* the blank " " and the single quote "'", or a run of ordinary            *)
(* characters ("create", "--yes", "numpy").  No symbol is the              *)
(* concatenation of others, so two sequences are equal exactly when the    *)
(* strings they stand for are equal.  A path is the sequence of its        *)
(* components; an absolute path starts with a directory of Dirs.           *)
(*                                                                         *)
(* Python's None is the reserved string None; both None and "" are falsy.  *)
(* A list option left at its default (None) and an empty list are both     *)
(* <<>>: the code only ever tests them for truth.                          *)
(***************************************************************************)
EXTENDS Integers, Sequences, FiniteSets, TLC

VARIABLES
    \* configuration and process environment, fixed for one tox run
    options_conda_name, \* getattr(self.options, "conda_name", None)
    conf,               \* self.conf: the conda_* keys of the tox environment
    env_dir,            \* self.env_dir
    python_version,     \* what _get_python_env_version returns
    environ,            \* os.environ: _CONDA_EXE and CONDA_EXE
    which_conda,        \* shutil.which("conda")
    cwd,                \* the process's current working directory
    \* the file system: absolute path -> content, or NoFile
    fs,
    \* results of the free-standing calls
    found,              \* what the last find_conda() call did
    cache,              \* what the last python_cache() call did
    \* create_python_env: its position, its locals, and what it has done
    pc,                 \* "idle", "create", "install", "done"
    conda_exe,
    python,
    conda_cache_conf,
    create_command,
    tear_down,
    install_command,
    log,                \* the commands handed to subprocess.run, with exit codes
    outcome,            \* "none" while running, "ok", or the exception raised
    unlinks,            \* the paths tear_down has unlinked, in order
    \* the runner object and the world conda acts on
    _created,           \* self._created
    env_dir_exists,     \* Path(self.env_dir).exists()
    conda_envs,         \* the prefixes 'conda env list --json' would print
    listing,            \* the last 'conda env list --json' that was run
    call,               \* the property being evaluated and its position
    requests,           \* the requests executed through self.executor
    result,             \* how the last property evaluation ended
    \* tox_register_tox_env
    register,           \* the ToxEnvRegister it is handed
    \* FilteredInfo
    info                \* a FilteredInfo, a compare() call and what it hands on

cfgvars == <<options_conda_name, conf, env_dir, python_version, environ,
             which_conda, cwd>>
runvars == <<pc, conda_exe, python, conda_cache_conf, create_command,
             tear_down, install_command, log, outcome, unlinks>>
objvars == <<_created, env_dir_exists, conda_envs, listing, call, requests, result>>
extvars == <<objvars, register, info>>
vars == <<cfgvars, fs, found, cache, runvars, extvars>>

-----------------------------------------------------------------------------
(* Bounds *)

\* longest list of create arguments, dependencies, channels or install
\* arguments that is configured
MaxArgs == 2

-----------------------------------------------------------------------------
(* Text *)

None == <<"<None>">>
EmptyStr == <<>>
SP == <<" ">>
Q == <<"'">>

\* Python truthiness of an optional str
Truthy(s) == s # None /\ s # EmptyStr

\* user-supplied words: plain, with a blank, with a single quote
WPlain == <<"numpy">>
WPlain2 == <<"scipy">>
WBlank == <<"a", " ", "b">>
WQuote == <<"c", "'", "d">>
Words == {WPlain, WBlank, WQuote}

\* all lists over S of length at most n
Lists(S, n) == UNION {[1..k -> S] : k \in 0..n}

RECURSIVE Flatten(_)
\* "".join(parts)
Flatten(parts) ==
    IF parts = <<>> THEN <<>> ELSE Head(parts) \o Flatten(Tail(parts))

-----------------------------------------------------------------------------
(* shlex.split(s), POSIX mode, whitespace_split: the part of shlex's       *)
(* read_token automaton for blanks, single quotes and ordinary characters. *)
(* state "ws": between tokens; "word": inside a token; "quote": inside     *)
(* '...'.  A token is emitted when it is non-empty or was quoted.  An      *)
(* unclosed quote raises ValueError("No closing quotation").               *)

RECURSIVE ShlexScan(_, _, _, _, _, _)
ShlexScan(s, i, state, tok, quoted, acc) ==
    IF i > Len(s) THEN
        IF state = "quote" THEN [ok |-> FALSE, tokens |-> <<>>]
        ELSE IF state = "word" /\ (tok # <<>> \/ quoted)
             THEN [ok |-> TRUE, tokens |-> Append(acc, tok)]
             ELSE [ok |-> TRUE, tokens |-> acc]
    ELSE LET c == s[i] IN
        CASE state = "ws" ->
                IF c = " " THEN ShlexScan(s, i + 1, "ws", <<>>, FALSE, acc)
                ELSE IF c = "'" THEN ShlexScan(s, i + 1, "quote", <<>>, TRUE, acc)
                ELSE ShlexScan(s, i + 1, "word", <<c>>, FALSE, acc)
          [] state = "word" ->
                IF c = " " THEN
                    ShlexScan(s, i + 1, "ws", <<>>, FALSE,
                              IF tok # <<>> \/ quoted THEN Append(acc, tok) ELSE acc)
                ELSE IF c = "'" THEN ShlexScan(s, i + 1, "quote", tok, TRUE, acc)
                ELSE ShlexScan(s, i + 1, "word", Append(tok, c), quoted, acc)
          [] OTHER ->
                IF c = "'" THEN ShlexScan(s, i + 1, "word", tok, quoted, acc)
                ELSE ShlexScan(s, i + 1, "quote", Append(tok, c), quoted, acc)

ShlexSplit(s) == ShlexScan(s, 1, "ws", <<>>, FALSE, <<>>)

-----------------------------------------------------------------------------
(* Paths and files *)

Dirs == {"/proj", "/other"}
EnvBase == "env.yml"
SpecBase == "spec.txt"
TmpBases == {"tox_conda_tmp1.yaml", "tox_conda_tmp2.yaml"}
Bases == {EnvBase, SpecBase} \cup TmpBases
AbsPaths == {<<d, b>> : d \in Dirs, b \in Bases}

\* directories that hold a conda binary
ExeDirs == {"/opt/a/bin", "/opt/b/bin", "/usr/bin"}
IsAbsolute(p) == p # <<>> /\ p[1] \in Dirs \cup ExeDirs
\* Path(p).resolve(): a relative path is taken from the working directory
Resolve(p, cwd_) == IF IsAbsolute(p) THEN p ELSE <<cwd_>> \o p
\* Path.name: the last component
PathName(p) == p[Len(p)]
\* Path.parent of an absolute path of the model: its directory
PathParent(p) == p[1]

NoFile == [absent |-> TRUE]
\* a conda environment file, as YAML().load returns it
EnvYaml(name, deps) == [name |-> name, dependencies |-> deps]
EnvFileA == EnvYaml(<<"tox-conda">>, <<WPlain>>)
EnvFileB == EnvYaml(<<"other-env">>, <<WPlain2, WPlain>>)
SpecFileA == [lines |-> <<"pytest">>]
SpecFileB == [lines |-> <<"asdf">>]
EnvFiles == {EnvFileA, EnvFileB}
SpecFiles == {SpecFileA, SpecFileB}

\* hashlib.sha1(content).hexdigest(): SHA-1 is taken to be free of
\* collisions, so a digest stands for the content it was computed from
Sha1(content) == [sha1 |-> content]

\* open(path) of a path relative to the working directory, or absolute
Exists(path, fs_) == path \in DOMAIN fs_ /\ fs_[path] # NoFile

-----------------------------------------------------------------------------
(* find_conda, plugin.py 460-480.  'conda -h' is run without check=True,   *)
(* so its exit code raises no CalledProcessError, the except clause cannot *)
(* run, and the result does not depend on that exit code.                  *)

FindConda_PathFirst(environ_, which_, cwd_) ==
    IF Truthy(which_)
    THEN [exc |-> "none", path |-> Resolve(which_, cwd_), help |-> TRUE]
    ELSE IF Truthy(environ_._CONDA_EXE)
    THEN [exc |-> "none", path |-> Resolve(environ_._CONDA_EXE, cwd_), help |-> FALSE]
    ELSE IF Truthy(environ_.CONDA_EXE)
    THEN [exc |-> "none", path |-> Resolve(environ_.CONDA_EXE, cwd_), help |-> FALSE]
    ELSE [exc |-> "Fail", path |-> None, help |-> FALSE]

\* help: whether 'conda -h' was run
FindConda(environ_, which_, cwd_) ==
    IF Truthy(environ_._CONDA_EXE)
    THEN [exc |-> "none", path |-> Resolve(environ_._CONDA_EXE, cwd_), help |-> FALSE]
    ELSE IF Truthy(environ_.CONDA_EXE)
    THEN [exc |-> "none", path |-> Resolve(environ_.CONDA_EXE, cwd_), help |-> FALSE]
    ELSE IF Truthy(which_)
    THEN [exc |-> "none", path |-> Resolve(which_, cwd_), help |-> TRUE]
    ELSE [exc |-> "Fail", path |-> None, help |-> FALSE]

-----------------------------------------------------------------------------
(* hash_file, plugin.py 483-487: open(file.name, "rb") opens the LAST      *)
(* COMPONENT of the path it is given, which the operating system takes     *)
(* from the working directory.                                             *)

hash_file(file, cwd_, fs_) ==
    LET opened == <<cwd_, PathName(file)>> IN
    IF Exists(opened, fs_)
    THEN [exc |-> "none", digest |-> Sha1(fs_[opened])]
    ELSE [exc |-> "FileNotFoundError", digest |-> None]

\* YAML().load(path) of an absolute path
YamlLoad(path, fs_) ==
    IF Exists(path, fs_)
    THEN [exc |-> "none", doc |-> fs_[path]]
    ELSE [exc |-> "FileNotFoundError", doc |-> NoFile]

-----------------------------------------------------------------------------
(* CondaEnvRunner.python_cache, plugin.py 108-154.  The 'conda' record is  *)
(* a function from its keys to their values.                               *)

NoDict == [unset |-> TRUE]

\* lines 111-127, with conda_env tried before conda_name
CacheTarget_EnvFirst(opt_name, cf, env_dir_, cwd_, fs_) ==
    LET conda_name == IF ~Truthy(opt_name) THEN cf.conda_name ELSE opt_name IN
    IF Truthy(cf.conda_env) THEN
        LET env_path == Resolve(cf.conda_env, cwd_)
            env_file == YamlLoad(env_path, fs_)
            h == hash_file(env_path, cwd_, fs_)
        IN  IF env_file.exc # "none" THEN [exc |-> env_file.exc, d |-> NoDict]
            ELSE IF h.exc # "none" THEN [exc |-> h.exc, d |-> NoDict]
            ELSE [exc |-> "none",
                  d |-> ("env_spec" :> <<"-n">>) @@ ("env" :> env_file.doc.name)
                        @@ ("env_path" :> env_path) @@ ("env_hash" :> h.digest)]
    ELSE IF Truthy(conda_name) THEN
        [exc |-> "none", d |-> ("env_spec" :> <<"-n">>) @@ ("env" :> conda_name)]
    ELSE
        [exc |-> "none", d |-> ("env_spec" :> <<"-p">>) @@ ("env" :> env_dir_)]

\* lines 111-127: the environment target
CacheTarget(opt_name, cf, env_dir_, cwd_, fs_) ==
    LET conda_name == IF ~Truthy(opt_name) THEN cf.conda_name ELSE opt_name IN
    IF Truthy(conda_name) THEN
        [exc |-> "none", d |-> ("env_spec" :> <<"-n">>) @@ ("env" :> conda_name)]
    ELSE IF Truthy(cf.conda_env) THEN
        LET env_path == Resolve(cf.conda_env, cwd_)
            env_file == YamlLoad(env_path, fs_)
            h == hash_file(Resolve(cf.conda_env, cwd_), cwd_, fs_)
        IN  IF env_file.exc # "none" THEN [exc |-> env_file.exc, d |-> NoDict]
            ELSE IF h.exc # "none" THEN [exc |-> h.exc, d |-> NoDict]
            ELSE [exc |-> "none",
                  d |-> ("env_spec" :> <<"-n">>) @@ ("env" :> env_file.doc.name)
                        @@ ("env_path" :> env_path) @@ ("env_hash" :> h.digest)]
    ELSE
        [exc |-> "none", d |-> ("env_spec" :> <<"-p">>) @@ ("env" :> env_dir_)]

\* lines 129-131
CacheDeps(d, conda_deps) ==
    IF conda_deps # <<>> THEN d @@ ("deps" :> conda_deps) ELSE d

\* lines 133-136
CacheSpec(d, conda_spec, cwd_, fs_) ==
    IF Truthy(conda_spec) THEN
        LET h == hash_file(Resolve(conda_spec, cwd_), cwd_, fs_) IN
        IF h.exc # "none" THEN [exc |-> h.exc, d |-> NoDict]
        ELSE [exc |-> "none",
              d |-> d @@ ("spec" :> conda_spec) @@ ("spec_hash" :> h.digest)]
    ELSE [exc |-> "none", d |-> d]

\* lines 138-140, with the key added whatever the list
CacheChannels_Always(d, conda_channels) == d @@ ("channels" :> conda_channels)

\* lines 138-140
CacheChannels(d, conda_channels) ==
    IF conda_channels # <<>> THEN d @@ ("channels" :> conda_channels) ELSE d

\* lines 142-144
CacheInstallArgs(d, conda_install_args) ==
    IF conda_install_args # <<>>
    THEN d @@ ("install_args" :> conda_install_args) ELSE d

\* lines 146-148
CacheCreateArgs(d, conda_create_args) ==
    IF conda_create_args # <<>>
    THEN d @@ ("create_args" :> conda_create_args) ELSE d

\* python_cache()["conda"], or the exception python_cache raises
PythonCache(opt_name, cf, env_dir_, cwd_, fs_) ==
    LET t == CacheTarget(opt_name, cf, env_dir_, cwd_, fs_) IN
    IF t.exc # "none" THEN [exc |-> t.exc, conda |-> NoDict]
    ELSE
        LET s == CacheSpec(CacheDeps(t.d, cf.conda_deps), cf.conda_spec, cwd_, fs_) IN
        IF s.exc # "none" THEN [exc |-> s.exc, conda |-> NoDict]
        ELSE [exc |-> "none",
              conda |-> CacheCreateArgs(
                            CacheInstallArgs(
                                CacheChannels(s.d, cf.conda_channels),
                                cf.conda_install_args),
                            cf.conda_create_args)]

-----------------------------------------------------------------------------
(* Command lines, plugin.py 188-260 *)

ExitCodes == {0, 1}

\* conda_cache_conf.get(key, [])
GetList(ccc, key) == IF key \in DOMAIN ccc THEN ccc[key] ELSE <<>>

\* lines 196-198, with the python pin put in front of the dependencies
EnvFileWithPython_PinFirst(env_file, python_) ==
    [env_file EXCEPT !.dependencies = <<python_>> \o @]

\* lines 196-198: the loaded environment file with the python pin appended
EnvFileWithPython(env_file, python_) ==
    [env_file EXCEPT !.dependencies = Append(@, python_)]

\* line 209
EnvCreateCommand(conda_exe_, tmp_name) ==
    Q \o conda_exe_ \o Q \o <<" ", "env", " ", "create", " ", "--file", " ">>
      \o Q \o tmp_name \o Q \o <<" ", "--quiet", " ", "--force">>

\* lines 218-223
CreateCommand(conda_exe_, python_, ccc) ==
    LET args == GetList(ccc, "create_args") IN
    Q \o conda_exe_ \o Q \o <<" ", "create", " ">> \o ccc["env_spec"] \o SP
      \o Q \o ccc["env"] \o Q \o SP \o python_ \o <<" ", "--yes", " ", "--quiet">>
      \o Flatten([i \in 1..Len(args) |-> SP \o Q \o args[i] \o Q])

\* what a 'conda create' or 'conda env create' that exits 0 has made: the
\* prefix given after -p, or else the environment of the given name in
\* conda's own envs directory
CondaPrefix(argv, ccc) ==
    IF ccc["env_spec"] = <<"-p">> /\ Len(argv) >= 4 THEN argv[4]
    ELSE <<"<envs>">> \o ccc["env"]

\* lines 233-260, with the python pin after the dependencies
InstallCommand_PinLast(conda_exe_, python_, ccc) ==
    IF "deps" \notin DOMAIN ccc /\ "spec" \notin DOMAIN ccc THEN None
    ELSE
        LET channels == GetList(ccc, "channels")
            args == GetList(ccc, "install_args")
            deps == GetList(ccc, "deps")
        IN  Q \o conda_exe_ \o Q \o <<" ", "install", " ", "--quiet", " ", "--yes", " ">>
              \o ccc["env_spec"] \o SP \o Q \o ccc["env"] \o Q
              \o Flatten([i \in 1..Len(channels) |-> <<" ", "--channel", " ">> \o channels[i]])
              \o Flatten([i \in 1..Len(args) |-> SP \o args[i]])
              \o Flatten([i \in 1..Len(deps) |-> SP \o deps[i]])
              \o SP \o python_
              \o (IF "spec" \in DOMAIN ccc THEN <<" ", "--file=">> \o ccc["spec"] ELSE <<>>)

\* lines 233-260, with channels or install arguments alone being enough
InstallCommand_AnyKey(conda_exe_, python_, ccc) ==
    IF DOMAIN ccc \cap {"deps", "spec", "channels", "install_args"} = {} THEN None
    ELSE
        LET channels == GetList(ccc, "channels")
            args == GetList(ccc, "install_args")
            deps == GetList(ccc, "deps")
        IN  Q \o conda_exe_ \o Q \o <<" ", "install", " ", "--quiet", " ", "--yes", " ">>
              \o ccc["env_spec"] \o SP \o Q \o ccc["env"] \o Q
              \o Flatten([i \in 1..Len(channels) |-> <<" ", "--channel", " ">> \o channels[i]])
              \o Flatten([i \in 1..Len(args) |-> SP \o args[i]])
              \o SP \o python_
              \o Flatten([i \in 1..Len(deps) |-> SP \o deps[i]])
              \o (IF "spec" \in DOMAIN ccc THEN <<" ", "--file=">> \o ccc["spec"] ELSE <<>>)

\* lines 233-260: the install command line, or None
InstallCommand(conda_exe_, python_, ccc) ==
    IF "deps" \notin DOMAIN ccc /\ "spec" \notin DOMAIN ccc THEN None
    ELSE
        LET channels == GetList(ccc, "channels")
            args == GetList(ccc, "install_args")
            deps == GetList(ccc, "deps")
        IN  Q \o conda_exe_ \o Q \o <<" ", "install", " ", "--quiet", " ", "--yes", " ">>
              \o ccc["env_spec"] \o SP \o Q \o ccc["env"] \o Q
              \o Flatten([i \in 1..Len(channels) |-> <<" ", "--channel", " ">> \o channels[i]])
              \o Flatten([i \in 1..Len(args) |-> SP \o args[i]])
              \o SP \o python_
              \o Flatten([i \in 1..Len(deps) |-> SP \o deps[i]])
              \o (IF "spec" \in DOMAIN ccc THEN <<" ", "--file=">> \o ccc["spec"] ELSE <<>>)

\* lines 211-212 and 225-226: what tear_down() does to the file system
NoTearDown == [kind |-> "none", path |-> None]
TearDownFs(td, fs_) ==
    IF td.kind = "unlink" THEN [fs_ EXCEPT ![td.path] = NoFile] ELSE fs_
TearDownUnlinks(td, unlinks_) ==
    IF td.kind = "unlink" THEN Append(unlinks_, td.path) ELSE unlinks_

\* lines 170-176, with tear_down() in an else clause instead of finally
FinallyRuns_OnSuccessOnly(raised) == ~raised

\* lines 175-176: tear_down() is in the finally clause of the create step
FinallyRuns(raised) == TRUE

\* lines 181-186, with the install step run whatever the create step did
InstallAfter_Always(create_rc) == TRUE

\* lines 172-174: check=True turns a non-zero exit code into
\* CalledProcessError, re-raised as Fail, so line 178 is reached on 0 only
InstallAfter(create_rc) == create_rc = 0

-----------------------------------------------------------------------------
(* Initial states *)

NoFound == [exc |-> "unset", path |-> None, help |-> FALSE]
NoCache == [exc |-> "unset", conda |-> NoDict]

\* CondaEnvRunner.__init__ has run; create_python_env has not been called
RunIdle ==
    /\ pc = "idle"
    /\ conda_exe = None
    /\ python = None
    /\ conda_cache_conf = NoDict
    /\ create_command = None
    /\ tear_down = NoTearDown
    /\ install_command = None
    /\ log = <<>>
    /\ outcome = "none"
    /\ unlinks = <<>>

NoListing == [ran |-> FALSE]
NoCall == [op |-> "none", stage |-> "idle", n |-> 0]
NoResult == [op |-> "none"]
NoRegister == [unset |-> TRUE]
NoInfo == [unset |-> TRUE]

\* CondaEnvRunner.__init__ has run; no property has been evaluated, conda
\* has made no environment and tox has not made env_dir
ObjIdle ==
    /\ _created = FALSE
    /\ env_dir_exists = FALSE
    /\ conda_envs = {}
    /\ listing = NoListing
    /\ call = NoCall
    /\ requests = <<>>
    /\ result = NoResult

\* tox_add_env_config, plugin.py 406-457: the keys and their defaults
Conf(name, env, spec, deps, channels, install_args, create_args) ==
    [conda_name |-> name, conda_env |-> env, conda_spec |-> spec,
     conda_deps |-> deps, conda_channels |-> channels,
     conda_install_args |-> install_args, conda_create_args |-> create_args]

\* a project tree: environment and spec files in /proj and in /other
FsWith(envProj, envOther, specProj, specOther) ==
    [p \in AbsPaths |->
        CASE p = <<"/proj", EnvBase>> -> envProj
          [] p = <<"/other", EnvBase>> -> envOther
          [] p = <<"/proj", SpecBase>> -> specProj
          [] p = <<"/other", SpecBase>> -> specOther
          [] OTHER -> NoFile]

EnvPathChoices == {None, <<EnvBase>>, <<"/proj", EnvBase>>, <<"/other", EnvBase>>}
SpecPathChoices == {None, <<SpecBase>>, <<"/proj", SpecBase>>, <<"/other", SpecBase>>}
Channel1 == <<"conda-forge">>
Channel2 == <<"nodefaults">>
InstallArg1 == <<"--override-channels">>
CreateArg1 == <<"--no-default-packages">>
\* the empty list and the lists of full length
EmptyOrFull(S) == {l \in Lists(S, MaxArgs) : Len(l) \in {0, MaxArgs}}

CondaPrivate == <<"/opt/a/bin", "conda">>
CondaActive == <<"/opt/b/bin", "conda">>
CondaOnPath == <<"/usr/bin", "conda">>

\* the project tree the runner starts in
InitFs == FsWith(EnvFileA, EnvFileB, SpecFileA, NoFile)

\* the runner, end to end
Init ==
    /\ options_conda_name = None
    /\ \E name \in {None, <<"cfg-env">>},
          env \in {None, <<EnvBase>>, <<"/other", EnvBase>>},
          spec \in {None, <<SpecBase>>},
          deps \in {<<>>, <<WPlain>>, <<WQuote>>},
          extras \in {<<>>, <<Channel1>>, <<InstallArg1>>},
          create_args \in Lists(Words, MaxArgs) :
            conf = Conf(name, env, spec, deps,
                        IF extras = <<Channel1>> THEN extras ELSE <<>>,
                        IF extras = <<InstallArg1>> THEN extras ELSE <<>>,
                        create_args)
    /\ env_dir \in {<<"/proj", ".tox", "py">>, <<"/proj", ".tox", "my", " ", "py">>,
                    <<"/proj", ".tox", "o", "'", "py">>}
    /\ python_version = <<"3.8">>
    /\ environ = [_CONDA_EXE |-> None, CONDA_EXE |-> None]
    /\ which_conda \in {None, CondaOnPath}
    /\ cwd \in Dirs
    /\ fs = InitFs
    /\ found = NoFound
    /\ cache = NoCache
    /\ RunIdle
    /\ ObjIdle
    /\ register = NoRegister
    /\ info = NoInfo

\* python_cache on its own
InitCache ==
    /\ options_conda_name \in {None, EmptyStr, <<"opt-env">>}
    /\ \E name \in {None, <<"cfg-env">>},
          env \in EnvPathChoices,
          spec \in SpecPathChoices,
          deps \in Lists({WPlain, WPlain2}, MaxArgs),
          channels \in EmptyOrFull({Channel1}),
          install_args \in EmptyOrFull({InstallArg1}),
          create_args \in EmptyOrFull({CreateArg1}) :
            conf = Conf(name, env, spec, deps, channels, install_args, create_args)
    /\ env_dir = <<"/proj", ".tox", "py">>
    /\ python_version = <<"3.8">>
    /\ environ = [_CONDA_EXE |-> None, CONDA_EXE |-> None]
    /\ which_conda = None
    /\ cwd \in Dirs
    /\ \E envOther \in EnvFiles \cup {NoFile}, specOther \in SpecFiles \cup {NoFile} :
            fs = FsWith(EnvFileA, envOther, SpecFileA, specOther)
    /\ found = NoFound
    /\ cache = NoCache
    /\ RunIdle
    /\ ObjIdle
    /\ register = NoRegister
    /\ info = NoInfo

\* find_conda on its own
InitFind ==
    /\ options_conda_name = None
    /\ conf = Conf(None, None, None, <<>>, <<>>, <<>>, <<>>)
    /\ env_dir = <<"/proj", ".tox", "py">>
    /\ python_version = <<"3.8">>
    /\ \E a \in {None, EmptyStr, <<"conda">>, CondaPrivate},
          b \in {None, EmptyStr, <<"bin", "conda">>, CondaActive} :
            environ = [_CONDA_EXE |-> a, CONDA_EXE |-> b]
    /\ which_conda \in {None, CondaOnPath}
    /\ cwd \in Dirs
    /\ fs = FsWith(EnvFileA, NoFile, SpecFileA, NoFile)
    /\ found = NoFound
    /\ cache = NoCache
    /\ RunIdle
    /\ ObjIdle
    /\ register = NoRegister
    /\ info = NoInfo

\* _generate_install_command on its own
InitInstall ==
    /\ options_conda_name = None
    /\ \E name \in {None, <<"cfg-env">>},
          spec \in {None, <<SpecBase>>},
          deps \in Lists(Words, MaxArgs),
          channels \in Lists({Channel1, Channel2}, MaxArgs),
          install_args \in Lists({InstallArg1}, MaxArgs) :
            conf = Conf(name, None, spec, deps, channels, install_args, <<>>)
    /\ env_dir \in {<<"/proj", ".tox", "py">>, <<"/proj", ".tox", "my", " ", "py">>}
    /\ python_version = <<"3.8">>
    /\ environ = [_CONDA_EXE |-> CondaPrivate, CONDA_EXE |-> None]
    /\ which_conda = None
    /\ cwd = "/proj"
    /\ fs = FsWith(EnvFileA, NoFile, SpecFileA, NoFile)
    /\ found = NoFound
    /\ cache = NoCache
    /\ RunIdle
    /\ ObjIdle
    /\ register = NoRegister
    /\ info = NoInfo

-----------------------------------------------------------------------------
(* Actions *)

\* a call of find_conda()
FindCondaCall ==
    /\ found = NoFound
    /\ \E help_rc \in ExitCodes :
        LET r == FindConda(environ, which_conda, cwd) IN
        found' = [r EXCEPT !.help = IF r.help THEN <<"ran", help_rc>> ELSE <<"no">>]
    /\ UNCHANGED <<cfgvars, fs, cache, runvars, extvars>>

\* a call of python_cache()
PythonCacheCall ==
    /\ cache = NoCache
    /\ cache' = PythonCache(options_conda_name, conf, env_dir, cwd, fs)
    /\ UNCHANGED <<cfgvars, fs, found, runvars, extvars>>

\* a call of _generate_install_command on the current fingerprint
GenerateInstallCall ==
    /\ cache = NoCache
    /\ LET fc == FindConda(environ, which_conda, cwd)
           pcache == PythonCache(options_conda_name, conf, env_dir, cwd, fs)
           py == <<"python=">> \o python_version
       IN  /\ fc.exc = "none" /\ pcache.exc = "none"
           /\ cache' = pcache
           /\ conda_exe' = fc.path
           /\ python' = py
           /\ conda_cache_conf' = pcache.conda
           /\ install_command' = InstallCommand(fc.path, py, pcache.conda)
    /\ UNCHANGED <<cfgvars, fs, found, pc, create_command, tear_down, log,
                   outcome, unlinks, extvars>>

\* create_python_env, lines 157-169: up to the create command being built
CreatePythonEnv_Begin ==
    /\ pc = "idle"
    /\ LET fc == FindConda(environ, which_conda, cwd)
           py == <<"python=">> \o python_version
           pcache == PythonCache(options_conda_name, conf, env_dir, cwd, fs)
           ccc == pcache.conda
           raises == IF fc.exc # "none" THEN fc.exc
                     ELSE IF pcache.exc # "none" THEN pcache.exc
                     ELSE IF Truthy(conf.conda_env) /\ "env_path" \notin DOMAIN ccc
                          THEN "KeyError"
                     ELSE "none"
       IN  /\ conda_exe' = IF fc.exc = "none" THEN fc.path ELSE conda_exe
           /\ python' = IF fc.exc = "none" THEN py ELSE python
           /\ conda_cache_conf' =
                   IF fc.exc = "none" /\ pcache.exc = "none" THEN ccc
                   ELSE conda_cache_conf
           /\ IF raises # "none" THEN
                   /\ pc' = "done"
                   /\ outcome' = raises
                   /\ UNCHANGED <<fs, create_command, tear_down>>
              ELSE IF Truthy(conf.conda_env) THEN
                   \* _generate_env_create_command, lines 192-214; the
                   \* temporary file gets a name that is not taken
                   \E tmp \in TmpBases :
                     LET env_path == Resolve(ccc["env_path"], cwd)
                         env_file == YamlLoad(env_path, fs)
                         tmp_name == <<PathParent(env_path), tmp>>
                     IN  /\ ~Exists(tmp_name, fs)
                         /\ fs' = [fs EXCEPT ![tmp_name] =
                                         EnvFileWithPython(env_file.doc, py)]
                         /\ create_command' = EnvCreateCommand(fc.path, tmp_name)
                         /\ tear_down' = [kind |-> "unlink", path |-> tmp_name]
                         /\ pc' = "create"
                         /\ outcome' = outcome
              ELSE
                   \* _generate_create_command, lines 218-228
                   /\ create_command' = CreateCommand(fc.path, py, ccc)
                   /\ tear_down' = NoTearDown
                   /\ pc' = "create"
                   /\ outcome' = outcome
                   /\ fs' = fs
    /\ UNCHANGED <<cfgvars, found, cache, install_command, log, unlinks, extvars>>

\* create_python_env, lines 170-180: the create command is split and run,
\* tear_down() is called, and the install command is built
CreatePythonEnv_RunCreate ==
    /\ pc = "create"
    /\ \E rc \in ExitCodes :
        LET sp == ShlexSplit(create_command)
            exc == IF ~sp.ok THEN "ValueError"
                   ELSE IF rc # 0 THEN "Fail" ELSE "none"
            torn == FinallyRuns(exc # "none")
            goes_on == sp.ok /\ InstallAfter(rc)
            ic == InstallCommand(conda_exe, python, conda_cache_conf)
        IN  /\ log' = IF sp.ok
                      THEN Append(log, [step |-> "create", argv |-> sp.tokens, rc |-> rc])
                      ELSE log
            /\ fs' = IF torn THEN TearDownFs(tear_down, fs) ELSE fs
            /\ LET made == IF sp.ok /\ rc = 0
                           THEN {CondaPrefix(sp.tokens, conda_cache_conf)} ELSE {}
               IN  /\ conda_envs' = conda_envs \cup made
                   /\ env_dir_exists' = (env_dir_exists \/ env_dir \in made)
            /\ unlinks' = IF torn THEN TearDownUnlinks(tear_down, unlinks) ELSE unlinks
            /\ IF ~goes_on THEN
                    /\ pc' = "done"
                    /\ outcome' = exc
                    /\ install_command' = install_command
               ELSE
                    /\ install_command' = ic
                    /\ pc' = IF ic = None THEN "done" ELSE "install"
                    /\ outcome' = IF ic = None /\ exc = "none" THEN "ok"
                                  ELSE IF ic = None THEN exc ELSE outcome
    /\ UNCHANGED <<cfgvars, found, cache, conda_exe, python, conda_cache_conf,
                   create_command, tear_down, _created, listing, call, requests,
                   result, register, info>>

\* create_python_env, lines 181-186: the install command is split and run
CreatePythonEnv_RunInstall ==
    /\ pc = "install"
    /\ \E rc \in ExitCodes :
        LET sp == ShlexSplit(install_command) IN
        /\ log' = IF sp.ok
                  THEN Append(log, [step |-> "install", argv |-> sp.tokens, rc |-> rc])
                  ELSE log
        /\ outcome' = IF ~sp.ok THEN "ValueError"
                      ELSE IF rc # 0 THEN "Fail" ELSE "ok"
        /\ pc' = "done"
    /\ UNCHANGED <<cfgvars, fs, found, cache, conda_exe, python, conda_cache_conf,
                   create_command, tear_down, install_command, unlinks, extvars>>

Next ==
    \/ CreatePythonEnv_Begin
    \/ CreatePythonEnv_RunCreate
    \/ CreatePythonEnv_RunInstall

Spec == Init /\ [][Next]_vars

NextCache == PythonCacheCall
SpecCache == InitCache /\ [][NextCache]_vars

NextFind == FindCondaCall
SpecFind == InitFind /\ [][NextFind]_vars

NextInstall == GenerateInstallCall
SpecInstall == InitInstall /\ [][NextInstall]_vars

-----------------------------------------------------------------------------
(* CondaEnvRunner.executor, plugin.py 262-295.  An ExecuteRequest is the   *)
(* record of its six constructor arguments; cmd is a list of strings.      *)

\* most requests tox sends through the executor, and most evaluations of
\* env_python, env_bin_dir and env_site_package_dir, in one run
MaxCalls == 2

\* lines 267-271: get_conda_command_prefix
CondaCommandPrefix(conda_exe_, ccc) ==
    ShlexSplit(Q \o conda_exe_ \o Q \o <<" ", "run", " ">> \o ccc["env_spec"]
               \o SP \o Q \o ccc["env"] \o Q \o <<" ", "--live-stream">>)

\* lines 274-291: CondaExecutor.build_instance, up to the request it makes
BuildInstance(request, environ_, which_, opt_name, cf, env_dir_, cwd_, fs_) ==
    LET fc == FindConda(environ_, which_, cwd_)
        pcache == PythonCache(opt_name, cf, env_dir_, cwd_, fs_)
    IN  IF fc.exc # "none" THEN [exc |-> fc.exc, request |-> request]
        ELSE IF pcache.exc # "none" THEN [exc |-> pcache.exc, request |-> request]
        ELSE LET conda_cmd == CondaCommandPrefix(fc.path, pcache.conda) IN
             IF ~conda_cmd.ok THEN [exc |-> "ValueError", request |-> request]
             ELSE [exc |-> "none",
                   request |-> [cmd |-> conda_cmd.tokens \o request.cmd,
                                cwd |-> request.cwd,
                                env |-> request.env,
                                stdin |-> request.stdin,
                                run_id |-> request.run_id,
                                allow |-> request.allow]]

\* the requests tox sends: a test command and a pip installation
ToxRequests ==
    [cmd : {<<<<"pytest">>, <<"-x">>>>, <<<<"python">>, <<"-m">>, <<"pip">>>>},
     cwd : Dirs,
     env : {"passed-env"},
     stdin : {"OFF", "USER"},
     run_id : {"commands[0]", "install_deps"},
     allow : {None, <<"pytest">>}]

\* an executed request: the request the caller made, the request that was
\* run, its exit code and standard output, and the evaluation it belongs to
Executed(orig, sent, rc, out) ==
    [orig |-> orig, sent |-> sent, rc |-> rc, out |-> out,
     created |-> _created, n |-> call.n]

\* tox executes a request through self.executor
ExecutorCall ==
    /\ call.stage = "idle"
    /\ Len(requests) < MaxCalls
    /\ \E request \in ToxRequests, rc \in ExitCodes :
        LET b == BuildInstance(request, environ, which_conda, options_conda_name,
                               conf, env_dir, cwd, fs)
        IN  /\ requests' = IF b.exc = "none"
                           THEN Append(requests, Executed(request, b.request, rc, <<>>))
                           ELSE requests
            /\ result' = [op |-> "execute", exc |-> b.exc]
    /\ UNCHANGED <<cfgvars, fs, found, cache, runvars, _created, env_dir_exists,
                   conda_envs, listing, call, register, info>>

\* an environment directory whose name has two single quotes
DirQuotes == <<"/proj", ".tox", "o", "'", "p", "'", "y">>
\* an environment name with two single quotes around a blank
NameQuotes == <<"a", "'", " ", "'", "b">>

\* the executor on its own
InitExec ==
    /\ options_conda_name = None
    /\ \E name \in {None, <<"cfg-env">>, NameQuotes}, env \in {None, <<EnvBase>>} :
            conf = Conf(name, env, None, <<>>, <<>>, <<>>, <<>>)
    /\ env_dir \in {<<"/proj", ".tox", "py">>, <<"/proj", ".tox", "my", " ", "py">>,
                    DirQuotes}
    /\ python_version = <<"3.8">>
    /\ \E a \in {None, CondaPrivate} : environ = [_CONDA_EXE |-> a, CONDA_EXE |-> None]
    /\ which_conda \in {None, CondaOnPath}
    /\ cwd \in Dirs
    /\ fs = InitFs
    /\ found = NoFound
    /\ cache = NoCache
    /\ RunIdle
    /\ ObjIdle
    /\ register = NoRegister
    /\ info = NoInfo

NextExec == ExecutorCall
SpecExec == InitExec /\ [][NextExec]_vars

-----------------------------------------------------------------------------
(* tox_register_tox_env, plugin.py 394-403.  The register is the record of *)
(* the run environments added to it and its default_env_runner; exc is the *)
(* exception the hook let out, called whether the hook has run.            *)

\* lines 396-403, with the default changed only for a non-empty
\* CONDA_DEFAULT_ENV
RegisterToxEnv_IfNonEmpty(reg, environ_, which_, cwd_) ==
    LET fc == FindConda(environ_, which_, cwd_)
        added == [reg EXCEPT !.run_envs = @ \cup {"conda"}]
    IN  IF fc.exc = "none" THEN
            IF Truthy(environ_.CONDA_DEFAULT_ENV)
            THEN [added EXCEPT !.default_env_runner = "conda"]
            ELSE added
        ELSE IF fc.exc = "Fail" THEN added
        ELSE [added EXCEPT !.exc = fc.exc]

\* lines 396-403
RegisterToxEnv(reg, environ_, which_, cwd_) ==
    LET fc == FindConda(environ_, which_, cwd_)
        added == [reg EXCEPT !.run_envs = @ \cup {"conda"}]
    IN  IF fc.exc = "none" THEN
            \* "CONDA_DEFAULT_ENV" in os.environ: set, to whatever value
            IF environ_.CONDA_DEFAULT_ENV # None
            THEN [added EXCEPT !.default_env_runner = "conda"]
            ELSE added
        ELSE IF fc.exc = "Fail" THEN added
        ELSE [added EXCEPT !.exc = fc.exc]

\* tox calls the hook
ToxRegisterToxEnv ==
    /\ ~register.called
    /\ register' = [RegisterToxEnv(register, environ, which_conda, cwd)
                        EXCEPT !.called = TRUE]
    /\ UNCHANGED <<cfgvars, fs, found, cache, runvars, objvars, info>>

\* the hook on its own: tox's register holds its own runner and a default
InitRegister ==
    /\ options_conda_name = None
    /\ conf = Conf(None, None, None, <<>>, <<>>, <<>>, <<>>)
    /\ env_dir = <<"/proj", ".tox", "py">>
    /\ python_version = <<"3.8">>
    /\ \E a \in {None, EmptyStr, CondaPrivate}, b \in {None, CondaActive},
          d \in {None, EmptyStr, <<"base">>} :
            environ = [_CONDA_EXE |-> a, CONDA_EXE |-> b, CONDA_DEFAULT_ENV |-> d]
    /\ which_conda \in {None, CondaOnPath}
    /\ cwd \in Dirs
    /\ fs = InitFs
    /\ found = NoFound
    /\ cache = NoCache
    /\ RunIdle
    /\ ObjIdle
    /\ \E default \in {"virtualenv", "custom"} :
            register = [run_envs |-> {"virtualenv"}, default_env_runner |-> default,
                        exc |-> "none", called |-> FALSE]
    /\ info = NoInfo

NextRegister == ToxRegisterToxEnv
SpecRegister == InitRegister /\ [][NextRegister]_vars

-----------------------------------------------------------------------------
(* env_site_package_dir, env_python and env_bin_dir, plugin.py 312-391.    *)
(* An evaluation goes through _call_python_in_conda_env: first             *)
(* _ensure_python_env_exists, which may call create_python_env, then the   *)
(* python command through the executor.  call.stage is "idle" between      *)
(* evaluations, "creating" while create_python_env runs for                *)
(* _ensure_python_env_exists, and "request" once                           *)
(* _ensure_python_env_exists has returned.  pc is "off" while              *)
(* create_python_env is not running.                                       *)

PropertyOps == {"env_site_package_dir", "env_python", "env_bin_dir"}

\* lines 314, 320, 326: the python code each property runs
PythonCmd(op) ==
    CASE op = "env_site_package_dir" -> <<"print(get_paths()[\"purelib\"])">>
      [] op = "env_python" -> <<"print(sys.executable)">>
      [] OTHER -> <<"print(get_paths()[\"scripts\"])">>

\* lines 348-354: the request of _call_python_in_conda_env
PythonRequest(op) ==
    [cmd |-> <<<<"python">>, <<"-c">>, PythonCmd(op)>>,
     cwd |-> "/proj",
     env |-> "environment_variables",
     stdin |-> "API",
     run_id |-> op,
     allow |-> None]

Whitespace == {" ", "\n"}

RECURSIVE LStrip(_)
LStrip(s) == IF s # <<>> /\ Head(s) \in Whitespace THEN LStrip(Tail(s)) ELSE s

RECURSIVE RStrip(_)
RStrip(s) ==
    IF s # <<>> /\ s[Len(s)] \in Whitespace THEN RStrip(SubSeq(s, 1, Len(s) - 1))
    ELSE s

\* line 364, with only the leading whitespace removed
Strip_LeftOnly(s) == LStrip(s)

\* str.strip()
Strip(s) == RStrip(LStrip(s))

\* what the python command may print
Outputs ==
    {<<"/proj", ".tox", "my", " ", "py", "\n">>,
     <<" ", "Scripts", "\n">>,
     <<"\n">>}

\* line 385, with every existing directory taken for a conda environment
Listed_Always(env_dir_, envs) == TRUE

\* line 385: str(self.env_dir) in envs["envs"]
Listed(env_dir_, envs) == env_dir_ \in envs

\* line 376
EnvListCommand(conda_exe_) ==
    Q \o conda_exe_ \o Q \o <<" ", "env", " ", "list", " ", "--json">>

\* how an evaluation ended: with an exception (of _ensure_python_env_exists
\* when phase is "ensure") or with the path it returned
Ended(op, n, phase, exc, value) ==
    [op |-> op, n |-> n, phase |-> phase, exc |-> exc, value |-> value]

\* a property is evaluated: _call_python_in_conda_env line 331 and
\* _ensure_python_env_exists, lines 366-391, up to its return, its raise or
\* its call of create_python_env
CallPython_Ensure ==
    /\ call.stage = "idle"
    /\ call.n < MaxCalls
    /\ \E op \in PropertyOps, rc \in ExitCodes :
        LET n == call.n + 1
            fc == FindConda(environ, which_conda, cwd)
            sp == ShlexSplit(EnvListCommand(fc.path))
            listed == Listed(env_dir, conda_envs)
            exc == IF fc.exc # "none" THEN fc.exc
                   ELSE IF ~sp.ok THEN "ValueError"
                   ELSE IF rc # 0 THEN "Fail"
                   ELSE IF ~listed THEN "Fail" ELSE "none"
        IN  IF ~env_dir_exists THEN
                \* lines 367-368: create_python_env is entered
                /\ call' = [op |-> op, stage |-> "creating", n |-> n]
                /\ pc' = "idle"
                /\ conda_exe' = None
                /\ python' = None
                /\ conda_cache_conf' = NoDict
                /\ create_command' = None
                /\ tear_down' = NoTearDown
                /\ install_command' = None
                /\ outcome' = "none"
                /\ UNCHANGED <<_created, listing, result>>
            ELSE IF _created THEN
                \* lines 372-373
                /\ call' = [op |-> op, stage |-> "request", n |-> n]
                /\ UNCHANGED <<_created, listing, result, pc, conda_exe, python,
                               conda_cache_conf, create_command, tear_down,
                               install_command, outcome>>
            ELSE
                \* lines 375-391
                /\ listing' = IF fc.exc = "none" /\ sp.ok
                              THEN [ran |-> TRUE, argv |-> sp.tokens, rc |-> rc,
                                    envs |-> conda_envs]
                              ELSE NoListing
                /\ _created' = (exc = "none")
                /\ call' = [op |-> op, n |-> n,
                            stage |-> IF exc = "none" THEN "request" ELSE "idle"]
                /\ result' = IF exc = "none" THEN result
                             ELSE Ended(op, n, "ensure", exc, None)
                /\ UNCHANGED <<pc, conda_exe, python, conda_cache_conf,
                               create_command, tear_down, install_command, outcome>>
    /\ UNCHANGED <<cfgvars, fs, found, cache, log, unlinks, env_dir_exists,
                   conda_envs, requests, register, info>>

\* _ensure_python_env_exists, lines 368-370: create_python_env has returned
\* or raised
CallPython_Created ==
    /\ call.stage = "creating"
    /\ pc = "done"
    /\ pc' = "off"
    /\ IF outcome = "ok" THEN
            /\ _created' = TRUE
            /\ call' = [call EXCEPT !.stage = "request"]
            /\ result' = result
       ELSE
            /\ _created' = _created
            /\ call' = [call EXCEPT !.stage = "idle"]
            /\ result' = Ended(call.op, call.n, "ensure", outcome, None)
    /\ UNCHANGED <<cfgvars, fs, found, cache, conda_exe, python, conda_cache_conf,
                   create_command, tear_down, install_command, log, outcome,
                   unlinks, env_dir_exists, conda_envs, listing, requests,
                   register, info>>

\* _call_python_in_conda_env, lines 333-364, and lines 316, 322, 328: the
\* request is executed and its output returned as a resolved path
CallPython_Request ==
    /\ call.stage = "request"
    /\ \E rc \in ExitCodes, out \in Outputs :
        \* the output is read only after exit code 0
        /\ rc # 0 => out = <<"\n">>
        /\ LET request == PythonRequest(call.op)
               b == BuildInstance(request, environ, which_conda, options_conda_name,
                                  conf, env_dir, cwd, fs)
           IN  /\ requests' = IF b.exc = "none"
                              THEN Append(requests, Executed(request, b.request, rc, out))
                              ELSE requests
               /\ result' = IF b.exc # "none"
                            THEN Ended(call.op, call.n, "request", b.exc, None)
                            ELSE IF rc # 0
                            THEN Ended(call.op, call.n, "request", "Fail", None)
                            ELSE Ended(call.op, call.n, "request", "none",
                                       Resolve(Strip(out), cwd))
    /\ call' = [call EXCEPT !.stage = "idle"]
    /\ UNCHANGED <<cfgvars, fs, found, cache, runvars, _created, env_dir_exists,
                   conda_envs, listing, register, info>>

\* the runner's properties: env_dir is there or not, and when it is there
\* conda knows it as an environment or not
InitRunner ==
    /\ options_conda_name = None
    /\ \E name \in {None, <<"cfg-env">>}, env \in {None, <<EnvBase>>},
          deps \in {<<>>, <<WPlain>>} :
            conf = Conf(name, env, None, deps, <<>>, <<>>, <<>>)
    /\ env_dir = <<"/proj", ".tox", "my", " ", "py">>
    /\ python_version = <<"3.8">>
    /\ environ = [_CONDA_EXE |-> None, CONDA_EXE |-> None]
    /\ which_conda \in {None, CondaOnPath}
    /\ cwd = "/proj"
    /\ fs = InitFs
    /\ found = NoFound
    /\ cache = NoCache
    /\ pc = "off"
    /\ conda_exe = None
    /\ python = None
    /\ conda_cache_conf = NoDict
    /\ create_command = None
    /\ tear_down = NoTearDown
    /\ install_command = None
    /\ log = <<>>
    /\ outcome = "none"
    /\ unlinks = <<>>
    /\ _created = FALSE
    /\ env_dir_exists \in BOOLEAN
    /\ conda_envs \in {{}, {<<"<envs>", "base">>}, {env_dir}}
    /\ env_dir \in conda_envs => env_dir_exists
    /\ listing = NoListing
    /\ call = NoCall
    /\ requests = <<>>
    /\ result = NoResult
    /\ register = NoRegister
    /\ info = NoInfo

NextRunner ==
    \/ CallPython_Ensure
    \/ CreatePythonEnv_Begin
    \/ CreatePythonEnv_RunCreate
    \/ CreatePythonEnv_RunInstall
    \/ CallPython_Created
    \/ CallPython_Request

SpecRunner == InitRunner /\ [][NextRunner]_vars

-----------------------------------------------------------------------------
(* FilteredInfo.compare, FilteredInfo.py 34-51.  A compared value is a     *)
(* dict (a function from its keys), a list, or a str.  A dict and a list   *)
(* have copy(); a str has none, so value.copy() raises AttributeError and  *)
(* the value goes on as it is.  dict.pop(key, None) removes the key when   *)
(* it is there; list.pop takes one argument at most, so list.pop(key,      *)
(* None) raises TypeError.                                                 *)

DictValue(d) == [kind |-> "dict", d |-> d]
ListValue(items) == [kind |-> "list", items |-> items]
StrValue(str) == [kind |-> "str", s |-> str]

\* value.pop(fkey, None) for each fkey of keys, on a dict d
PopAll(d, keys) ==
    [k \in DOMAIN d \ {keys[i] : i \in 1..Len(keys)} |-> d[k]]

\* lines 42-50: the value handed to Info.compare, or the exception raised
FilteredValue(filter_keys, filter_section, value, section) ==
    IF filter_section = None \/ section = filter_section THEN
        IF value.kind = "str" THEN [exc |-> "none", value |-> value]
        ELSE
            \* self.filter_keys or []
            LET keys == IF filter_keys = None THEN <<>> ELSE filter_keys IN
            IF value.kind = "dict"
            THEN [exc |-> "none", value |-> DictValue(PopAll(value.d, keys))]
            ELSE IF keys = <<>> THEN [exc |-> "none", value |-> value]
            ELSE [exc |-> "TypeError", value |-> value]
    ELSE [exc |-> "none", value |-> value]

\* a FilteredInfo is asked to compare a value
FilteredInfoCompare ==
    /\ ~info.called
    /\ LET f == FilteredValue(info.filter_keys, info.filter_section, info.value,
                              info.section)
       IN  info' = [info EXCEPT !.called = TRUE, !.exc = f.exc, !.handed = f.value]
    /\ UNCHANGED <<cfgvars, fs, found, cache, runvars, objvars, register>>

\* the values tox compares: the python fingerprint, a requirement list and
\* a version string
ComparedValues ==
    {DictValue([k \in {"version"} \cup S |-> <<"v-", k>>]) :
        S \in SUBSET {"env_name", "conda"}}
    \cup {ListValue(<<"pytest">>), StrValue("3.8")}

\* FilteredInfo.compare on its own
InitInfo ==
    /\ options_conda_name = None
    /\ conf = Conf(None, None, None, <<>>, <<>>, <<>>, <<>>)
    /\ env_dir = <<"/proj", ".tox", "py">>
    /\ python_version = <<"3.8">>
    /\ environ = [_CONDA_EXE |-> None, CONDA_EXE |-> None]
    /\ which_conda = None
    /\ cwd = "/proj"
    /\ fs = InitFs
    /\ found = NoFound
    /\ cache = NoCache
    /\ RunIdle
    /\ ObjIdle
    /\ register = NoRegister
    /\ \E filter_keys \in {None, <<>>, <<"env_name">>, <<"env_name", "missing">>},
          filter_section \in {None, EmptyStr, <<"Python">>},
          value \in ComparedValues,
          section \in {<<"Python">>, <<"PythonRun">>} :
            info = [filter_keys |-> filter_keys, filter_section |-> filter_section,
                    value |-> value, section |-> section,
                    called |-> FALSE, exc |-> "none", handed |-> value]

NextInfo == FilteredInfoCompare
SpecInfo == InitInfo /\ [][NextInfo]_vars

-----------------------------------------------------------------------------
(* Claims *)

InstallRan == \E i \in 1..Len(log) : log[i].step = "install"

\* C1: create_python_env runs the create command first and the install
\* command only after the create command exited 0; a create command that
\* exits non-zero raises Fail and no install command is run; an install
\* command that exits non-zero raises Fail.
C1_CreateBeforeInstall ==
    /\ Len(log) <= 2
    /\ log # <<>> => log[1].step = "create"
    /\ \A i \in 1..Len(log) :
            log[i].step = "install" =>
                i = 2 /\ log[1].step = "create" /\ log[1].rc = 0
    /\ (log # <<>> /\ log[1].rc # 0) =>
            pc = "done" /\ outcome = "Fail" /\ ~InstallRan
    /\ (Len(log) = 2 /\ log[2].rc # 0) => pc = "done" /\ outcome = "Fail"

\* an install command has run after a successful create, and failed
C1_Witness ==
    /\ pc = "done"
    /\ Len(log) = 2
    /\ log[1].rc = 0
    /\ log[2].step = "install"
    /\ log[2].rc # 0

\* C2: find_conda takes a non-empty _CONDA_EXE before CONDA_EXE, a
\* non-empty CONDA_EXE before a conda on PATH, and raises Fail exactly when
\* none of the three gives a binary; it never returns without a path.
C2_FindCondaPrecedence ==
    found # NoFound =>
        /\ Truthy(environ._CONDA_EXE) =>
                found.exc = "none" /\ found.path = Resolve(environ._CONDA_EXE, cwd)
        /\ (~Truthy(environ._CONDA_EXE) /\ Truthy(environ.CONDA_EXE)) =>
                found.exc = "none" /\ found.path = Resolve(environ.CONDA_EXE, cwd)
        /\ (~Truthy(environ._CONDA_EXE) /\ ~Truthy(environ.CONDA_EXE)
                /\ Truthy(which_conda)) =>
                found.exc = "none" /\ found.path = Resolve(which_conda, cwd)
        /\ (~Truthy(environ._CONDA_EXE) /\ ~Truthy(environ.CONDA_EXE)
                /\ ~Truthy(which_conda)) => found.exc = "Fail"
        /\ found.exc = "none" => Truthy(found.path) /\ IsAbsolute(found.path)
        /\ found.exc \in {"none", "Fail"}

\* all three sources name a binary, and find_conda has returned
C2_Witness ==
    /\ found # NoFound
    /\ found.exc = "none"
    /\ Truthy(environ._CONDA_EXE)
    /\ Truthy(environ.CONDA_EXE)
    /\ Truthy(which_conda)

\* C3: the conda record python_cache returns has deps iff conda_deps is
\* non-empty, spec and spec_hash iff conda_spec is set, channels,
\* install_args and create_args iff the option is non-empty, each present
\* key with the configured value, and always env_spec and env.
C3_CacheKeys ==
    cache.exc = "none" =>
        LET d == cache.conda IN
        /\ {"env_spec", "env"} \subseteq DOMAIN d
        /\ "deps" \in DOMAIN d <=> conf.conda_deps # <<>>
        /\ "deps" \in DOMAIN d => d["deps"] = conf.conda_deps
        /\ "spec" \in DOMAIN d <=> Truthy(conf.conda_spec)
        /\ "spec_hash" \in DOMAIN d <=> Truthy(conf.conda_spec)
        /\ "spec" \in DOMAIN d => d["spec"] = conf.conda_spec
        /\ "channels" \in DOMAIN d <=> conf.conda_channels # <<>>
        /\ "channels" \in DOMAIN d => d["channels"] = conf.conda_channels
        /\ "install_args" \in DOMAIN d <=> conf.conda_install_args # <<>>
        /\ "install_args" \in DOMAIN d => d["install_args"] = conf.conda_install_args
        /\ "create_args" \in DOMAIN d <=> conf.conda_create_args # <<>>
        /\ "create_args" \in DOMAIN d => d["create_args"] = conf.conda_create_args

\* python_cache has returned for deps and a spec file but no channels
C3_Witness ==
    /\ cache.exc = "none"
    /\ conf.conda_deps # <<>>
    /\ Truthy(conf.conda_spec)
    /\ conf.conda_channels = <<>>
    /\ conf.conda_create_args # <<>>
    /\ "spec_hash" \in DOMAIN cache.conda

\* C4: env_hash and spec_hash are the SHA-1 digest of the content of the
\* file at the resolved conda_env / conda_spec path, whatever the working
\* directory is.
C4_HashOfConfiguredFile ==
    cache.exc = "none" =>
        LET d == cache.conda IN
        /\ "env_hash" \in DOMAIN d =>
                d["env_hash"] = Sha1(fs[Resolve(conf.conda_env, cwd)])
        /\ "spec_hash" \in DOMAIN d =>
                d["spec_hash"] = Sha1(fs[Resolve(conf.conda_spec, cwd)])

\* C5: the environment target is chosen by precedence: a conda_name option,
\* else a configured conda_name, gives -n and that name; else a conda_env
\* file gives -n and the file's name field, with env_path and env_hash;
\* else -p and env_dir.  env_path and env_hash come with the conda_env
\* branch only.
C5_TargetPrecedence ==
    cache.exc = "none" =>
        LET d == cache.conda
            name == IF Truthy(options_conda_name) THEN options_conda_name
                    ELSE conf.conda_name
        IN  IF Truthy(name) THEN
                /\ d["env_spec"] = <<"-n">>
                /\ d["env"] = name
                /\ DOMAIN d \cap {"env_path", "env_hash"} = {}
            ELSE IF Truthy(conf.conda_env) THEN
                /\ d["env_spec"] = <<"-n">>
                /\ d["env"] = fs[Resolve(conf.conda_env, cwd)].name
                /\ {"env_path", "env_hash"} \subseteq DOMAIN d
                /\ d["env_path"] = Resolve(conf.conda_env, cwd)
            ELSE
                /\ d["env_spec"] = <<"-p">>
                /\ d["env"] = env_dir
                /\ DOMAIN d \cap {"env_path", "env_hash"} = {}

\* python_cache has returned with a name option, a configured name and an
\* environment file all given
C5_Witness ==
    /\ cache.exc = "none"
    /\ Truthy(options_conda_name)
    /\ Truthy(conf.conda_name)
    /\ Truthy(conf.conda_env)

\* no conda_* option other than conda_create_args is configured
OnlyCreateArgs ==
    /\ ~Truthy(options_conda_name)
    /\ ~Truthy(conf.conda_name)
    /\ ~Truthy(conf.conda_env)
    /\ ~Truthy(conf.conda_spec)
    /\ conf.conda_deps = <<>>
    /\ conf.conda_channels = <<>>
    /\ conf.conda_install_args = <<>>

\* C6: with no conda_* option configured, a run (conda being found) issues
\* exactly one create command, conda create -p <env_dir> python=<version>
\* --yes --quiet, no install command, and succeeds when the create command
\* exits 0; each configured create argument follows as one argument.
C6_PlainCreate ==
    (pc = "done" /\ OnlyCreateArgs /\ conda_exe # None) =>
        /\ Len(log) = 1
        /\ log[1].step = "create"
        /\ log[1].argv = <<conda_exe, <<"create">>, <<"-p">>, env_dir,
                           <<"python=">> \o python_version,
                           <<"--yes">>, <<"--quiet">>>> \o conf.conda_create_args
        /\ log[1].rc = 0 => outcome = "ok"

RECURSIVE JoinBlank(_)
\* " ".join(pieces)
JoinBlank(pieces) ==
    IF pieces = <<>> THEN <<>>
    ELSE IF Len(pieces) = 1 THEN pieces[1]
    ELSE pieces[1] \o SP \o JoinBlank(Tail(pieces))

\* C7: an install command line is, in this order and separated by single
\* blanks: conda install --quiet --yes, the target (env_spec, env), one
\* --channel <c> per channel, the install arguments, python=<version>, the
\* dependencies in their order, and --file=<spec> last when there is a spec
\* file; the pin is always there and comes before every dependency.
C7_InstallCommandOrder ==
    (cache # NoCache /\ install_command # None) =>
        LET ch == conf.conda_channels
            pieces ==
                <<Q \o conda_exe \o Q, <<"install">>, <<"--quiet">>, <<"--yes">>,
                  conda_cache_conf["env_spec"], Q \o conda_cache_conf["env"] \o Q>>
                \o [i \in 1..(2 * Len(ch)) |->
                        IF i % 2 = 1 THEN <<"--channel">> ELSE ch[i \div 2]]
                \o conf.conda_install_args
                \o << <<"python=">> \o python_version >>
                \o conf.conda_deps
                \o (IF Truthy(conf.conda_spec)
                    THEN << <<"--file=">> \o conf.conda_spec >> ELSE <<>>)
        IN  install_command = JoinBlank(pieces)

\* an install command line was built for channels, install arguments,
\* several dependencies and a spec file
C7_Witness ==
    /\ cache # NoCache
    /\ install_command # None
    /\ Len(conf.conda_channels) >= 2
    /\ conf.conda_install_args # <<>>
    /\ Len(conf.conda_deps) >= 2
    /\ conf.conda_deps[1] # conf.conda_deps[2]
    /\ Truthy(conf.conda_spec)

HasDepsOrSpec(d) == "deps" \in DOMAIN d \/ "spec" \in DOMAIN d

\* C8 as stated: a run of create_python_env that executes anything executes
\* an install command if and only if the fingerprint contains deps or spec.
C8_InstallIffDepsOrSpec ==
    (pc = "done" /\ log # <<>>) =>
        (InstallRan <=> HasDepsOrSpec(conda_cache_conf))

\* C8 amended: an install command is executed only after a create command
\* that exited 0 and only if the fingerprint contains deps or spec; once the
\* create command has exited 0, an install command line is built and handed
\* on for execution iff the fingerprint contains deps or spec; after a
\* failed create command none is built or run.
C8_InstallOnlyForDepsOrSpec ==
    /\ InstallRan =>
            /\ HasDepsOrSpec(conda_cache_conf)
            /\ log[1].rc = 0
            /\ install_command # None
    /\ (log # <<>> /\ log[1].rc = 0) =>
            /\ pc \in {"install", "done"}
            /\ install_command # None <=> HasDepsOrSpec(conda_cache_conf)
            /\ pc = "install" <=> (install_command # None /\ ~InstallRan
                                    /\ outcome = "none")
    /\ (log # <<>> /\ log[1].rc # 0) => install_command = None /\ ~InstallRan

\* the create command exited 0 with channels but neither deps nor spec
\* configured, and the run ended without an install command
C8_Witness ==
    /\ pc = "done"
    /\ outcome = "ok"
    /\ log # <<>>
    /\ log[1].rc = 0
    /\ conf.conda_channels # <<>>
    /\ ~HasDepsOrSpec(conda_cache_conf)
    /\ ~InstallRan

TmpPaths == {<<d, b>> : d \in Dirs, b \in TmpBases}

\* C9: with conda_env configured, the temporary environment file is gone
\* once create_python_env has returned or raised, whatever the create
\* command's exit code: it is unlinked exactly once per creation.
C9_TempFileUnlinked ==
    /\ pc = "done" => \A p \in TmpPaths : fs[p] = NoFile
    /\ (pc = "done" /\ tear_down.kind = "unlink") => unlinks = <<tear_down.path>>
    /\ (pc = "create" /\ tear_down.kind = "unlink") =>
            fs[tear_down.path] # NoFile /\ unlinks = <<>>
    /\ tear_down.kind # "unlink" => unlinks = <<>>

\* a conda env create command exited non-zero and create_python_env raised
C9_Witness ==
    /\ pc = "done"
    /\ tear_down.kind = "unlink"
    /\ log # <<>>
    /\ log[1].rc # 0
    /\ outcome = "Fail"

UserPaths == {<<d, b>> : d \in Dirs, b \in {EnvBase, SpecBase}}

\* C10: with conda_env configured, the file passed to conda env create
\* --file is a copy of the user's environment file whose dependencies are
\* the original ones followed by python=<version> as the last entry, and
\* the user's environment file is left unchanged.
C10_EnvFileCopy ==
    /\ \A p \in UserPaths : fs[p] = InitFs[p]
    /\ (pc = "create" /\ Truthy(conf.conda_env)) =>
            LET sp == ShlexSplit(create_command)
                user == InitFs[Resolve(conf.conda_env, cwd)]
                pin == <<"python=">> \o python_version
            IN  /\ sp.ok
                /\ sp.tokens = <<conda_exe, <<"env">>, <<"create">>, <<"--file">>,
                                 tear_down.path, <<"--quiet">>, <<"--force">>>>
                /\ tear_down.path \notin UserPaths
                /\ fs[tear_down.path].name = user.name
                /\ fs[tear_down.path].dependencies = user.dependencies \o <<pin>>
    /\ (log # <<>> /\ Truthy(conf.conda_env)) =>
            /\ log[1].argv[2] = <<"env">>
            /\ log[1].argv[5] = tear_down.path

\* a conda env create command has been run on the copy
C10_Witness ==
    /\ pc = "done"
    /\ Truthy(conf.conda_env)
    /\ log # <<>>
    /\ log[1].argv[2] = <<"env">>
    /\ log[1].rc = 0
    /\ Len(InitFs[Resolve(conf.conda_env, cwd)].dependencies) >= 2

\* C11: every request executed through the executor runs the command
\* [conda, "run", env_spec, env, "--live-stream"] followed by the request's
\* own command, env_spec and env being those of the current fingerprint, and
\* has the request's cwd, env, stdin, run_id and allow.
C11_ExecutorCommand ==
    \A i \in 1..Len(requests) :
        LET r == requests[i]
            fc == FindConda(environ, which_conda, cwd)
            ccc == PythonCache(options_conda_name, conf, env_dir, cwd, fs).conda
        IN  /\ r.sent.cmd = <<fc.path, <<"run">>, ccc["env_spec"], ccc["env"],
                              <<"--live-stream">>>> \o r.orig.cmd
            /\ r.sent.cwd = r.orig.cwd
            /\ r.sent.env = r.orig.env
            /\ r.sent.stdin = r.orig.stdin
            /\ r.sent.run_id = r.orig.run_id
            /\ r.sent.allow = r.orig.allow

\* C12: tox_register_tox_env always adds the conda runner; it makes "conda"
\* the default runner exactly when a conda binary is found and
\* CONDA_DEFAULT_ENV is in the environment, and leaves the default as it was
\* otherwise; it lets no exception out when conda is not found.
C12_Register ==
    [][register' # register =>
        /\ register'.run_envs = register.run_envs \cup {"conda"}
        /\ register'.default_env_runner =
              IF FindConda(environ, which_conda, cwd).exc = "none"
                 /\ environ.CONDA_DEFAULT_ENV # None
              THEN "conda" ELSE register.default_env_runner
        /\ register'.exc = "none"]_vars

\* the hook has run with CONDA_DEFAULT_ENV set to the empty string and a
\* conda binary found, and the default runner is conda
C12_Witness ==
    /\ register.called
    /\ environ.CONDA_DEFAULT_ENV = EmptyStr
    /\ FindConda(environ, which_conda, cwd).exc = "none"
    /\ register.default_env_runner = "conda"
    /\ "conda" \in register.run_envs

\* a step that starts the evaluation of a property
EnsureStep == call.stage = "idle" /\ call'.n = call.n + 1

\* C13: when env_dir exists and _created is False,
\* _ensure_python_env_exists runs 'conda env list --json' and no create or
\* install command; when the listing exits non-zero, or exits 0 without
\* env_dir in it, it raises Fail and _created stays False; when env_dir is
\* listed it sets _created and returns.
C13_EnsureExisting ==
    [][(EnsureStep /\ env_dir_exists /\ ~_created) =>
        LET failed == /\ result' = Ended(call'.op, call'.n, "ensure", "Fail", None)
                      /\ call'.stage = "idle"
                      /\ ~_created'
        IN  /\ log' = log
            /\ pc' = pc
            /\ fs' = fs
            /\ listing'.ran =>
                  /\ listing'.envs = conda_envs
                  /\ listing'.argv = <<FindConda(environ, which_conda, cwd).path,
                                       <<"env">>, <<"list">>, <<"--json">>>>
                  /\ listing'.rc # 0 => failed
                  /\ (listing'.rc = 0 /\ env_dir \notin listing'.envs) => failed
                  /\ (listing'.rc = 0 /\ env_dir \in listing'.envs) =>
                        /\ _created'
                        /\ call'.stage = "request"
                        /\ result' = result]_vars

\* env_dir exists, the listing exited 0 without it, and the evaluation
\* ended in Fail with nothing created
C13_Witness ==
    /\ env_dir_exists
    /\ ~_created
    /\ listing.ran
    /\ listing.rc = 0
    /\ env_dir \notin listing.envs
    /\ result.op \in PropertyOps
    /\ result.phase = "ensure"
    /\ result.exc = "Fail"
    /\ log = <<>>

\* p is the resolved path of raw without its surrounding whitespace
StrippedTo(raw, p) ==
    \E i \in 1..(Len(raw) + 1), j \in 0..Len(raw) :
        LET t == SubSeq(raw, i, j) IN
        /\ \A k \in 1..(i - 1) : raw[k] \in Whitespace
        /\ \A k \in (j + 1)..Len(raw) : raw[k] \in Whitespace
        /\ t = <<>> \/ (t[1] \notin Whitespace /\ t[Len(t)] \notin Whitespace)
        /\ p = Resolve(t, cwd)

\* C14: env_python, env_bin_dir and env_site_package_dir execute their
\* python request only after _ensure_python_env_exists has returned (no
\* request when it raised); they raise Fail when the request's exit code is
\* not 0 and otherwise return its standard output, stripped of surrounding
\* whitespace, as a resolved path.
C14_PropertyCall ==
    /\ \A i \in 1..Len(requests) :
          requests[i].n > 0 =>
              /\ requests[i].created
              /\ requests[i].orig.run_id \in PropertyOps
              /\ requests[i].orig = PythonRequest(requests[i].orig.run_id)
    /\ result.op \in PropertyOps =>
          LET mine == {i \in 1..Len(requests) : requests[i].n = result.n} IN
          /\ Cardinality(mine) <= 1
          /\ result.phase = "ensure" => (mine = {} /\ result.exc # "none")
          /\ \A i \in mine :
                /\ result.phase = "request"
                /\ requests[i].orig.run_id = result.op
                /\ requests[i].rc # 0 => result.exc = "Fail"
                /\ requests[i].rc = 0 =>
                      /\ result.exc = "none"
                      /\ StrippedTo(requests[i].out, result.value)
          /\ result.exc = "none" => mine # {}

\* env_bin_dir printed " Scripts\n" with exit code 0 and returned
\* /proj/Scripts
C14_Witness ==
    /\ result.op = "env_bin_dir"
    /\ result.exc = "none"
    /\ result.value = <<"/proj", "Scripts">>
    /\ _created
    /\ \E i \in 1..Len(requests) :
          /\ requests[i].n = result.n
          /\ requests[i].out = <<" ", "Scripts", "\n">>
          /\ requests[i].rc = 0

\* C16: once _created is True no further create or install command is run,
\* whichever target is configured, and _created stays True.
C16_CreatedOnce ==
    [][_created => (log' = log /\ _created')]_vars

\* the keys compare is to remove: those of filter_keys when filter_section
\* is None or is the compared section, and none otherwise
KeysToRemove ==
    IF (info.filter_section = None \/ info.section = info.filter_section)
       /\ info.filter_keys # None
    THEN {info.filter_keys[i] : i \in 1..Len(info.filter_keys)}
    ELSE {}

\* C15: compare hands Info.compare the caller's value without the keys of
\* filter_keys when filter_section is None or is the compared section, and
\* the caller's value with all its keys for any other section or when
\* filter_keys is None or empty.
C15_FilteredCompare ==
    info.called =>
        /\ info.exc = "none"
        /\ IF info.value.kind = "dict"
           THEN /\ info.handed.kind = "dict"
                /\ DOMAIN info.handed.d = DOMAIN info.value.d \ KeysToRemove
                /\ \A k \in DOMAIN info.handed.d : info.handed.d[k] = info.value.d[k]
           ELSE info.handed = info.value

====
